---- MODULE Spec2Model ----
(***************************************************************************)
(* Model of tower-reqwest/src/adapters/reqwest.rs: the tower Service       *)
(* implementation of HttpClientService<S> (poll_ready, call) and the       *)
(* future it returns, ExecuteRequestFuture<S> (new, poll, drop glue).      *)
(*                                                                         *)
(* The inner executor S and its futures are the environment: the model     *)
(* keeps what a counting / cancellation-observing stub would observe.      *)
(***************************************************************************)
EXTENDS Integers, Sequences, FiniteSets, TLC

\* ------------------------------------------------------------------ bounds
\* Number of calls to HttpClientService::call in one behaviour.
MaxCalls == 2
\* Number of polls of all Execution Results together in one behaviour.
MaxPolls == 2
\* Number of times one inner future returns Pending before it completes,
\* where the inner future is assumed to complete.
MaxPending == 1

\* ------------------------------------------------------------- value types
\* Option<T>
None == [none |-> TRUE]
Some(v) == [some |-> v]

\* Result<T, E>
Ok(v) == [ok |-> v]
Err(e) == [err |-> e]
IsOk(r) == "ok" \in DOMAIN r

\* std::task::Poll<T>, plus the unwinding of a panic out of poll
Pending == [kind |-> "Pending"]
Ready(v) == [kind |-> "Ready", val |-> v]
Panic(m) == [kind |-> "Panic", msg |-> m]

\* ---------------------------------------------------------------- requests
\* http::Uri values used by the callers: one absolute, one relative.
AbsoluteUri == [scheme |-> "http", authority |-> "mock", path |-> "/hello"]
RelativeUri == [scheme |-> "", authority |-> "", path |-> "/hello"]
Uris == {AbsoluteUri, RelativeUri}

\* http::HeaderMap as the ordered list of (name, value) entries.
RequestIdHeader == "x-request-id"
HeaderMaps ==
    { <<>>,
      << <<"accept", "json">> >>,
      << <<"accept", "text">>, <<RequestIdHeader, "caller">> >> }

\* Request bodies (hyper::body::Body<Data = Bytes>): the chunks the stream
\* yields, whether it ends with a stream error instead of end-of-stream,
\* and how many frames have been pulled from it so far.
ReqBodies ==
    { [chunks |-> <<>>, fails |-> FALSE, read |-> 0],
      [chunks |-> <<"b1", "b2">>, fails |-> TRUE, read |-> 0] }

\* http::Request<ReqBody>
GenericRequests ==
    [method : {"GET"}, uri : Uris, headers : HeaderMaps, body : ReqBodies]

\* An outer tower layer that injects the request id before the adapter
\* (tower-http set_x_request_id in the layered stack of the test): it adds
\* the header unless the request already carries one.
HasHeader(headers, name) == \E k \in 1..Len(headers) : headers[k][1] = name
SetRequestId(req) ==
    IF HasHeader(req.headers, RequestIdHeader)
    THEN req
    ELSE [req EXCEPT !.headers = Append(@, <<RequestIdHeader, "uuid">>)]

\* A body conversion that collects the stream while converting it.
BoxBody_eager(body) ==
    [chunks |-> body.chunks, fails |-> body.fails, boxed |-> TRUE,
     read |-> Len(body.chunks) + 1]

\* body.map_err(BoxError::from).boxed(): the same stream behind a boxed
\* body whose error type is erased; nothing is read from it.
BoxBody(body) ==
    [chunks |-> body.chunks, fails |-> body.fails, boxed |-> TRUE,
     read |-> body.read]

\* The frames a consumer pulls from a body, one after the other: its
\* chunks, then the stream error if it fails; the error is boxed if the
\* body went through map_err(BoxError::from).
BodyFrames(body) ==
    [k \in 1..Len(body.chunks) |-> Ok(body.chunks[k])] \o
    (IF body.fails
     THEN << Err([boxed |-> "boxed" \in DOMAIN body, source |-> "stream error"]) >>
     ELSE <<>>)

\* req.map(f) rebuilt from method, uri and body only.
RequestMapBody_drops_headers(req) ==
    [req EXCEPT !.body = BoxBody(@), !.headers = <<>>]

\* req.map(f): every part of the request kept, the body replaced by f(body).
RequestMapBody(req) == [req EXCEPT !.body = BoxBody(@)]

\* reqwest::Request::try_from(http::Request<T>): the URI is parsed as a
\* Url, which fails for a URI without a scheme; method, headers and body
\* are moved into the native request.
TryFromRequest(req) ==
    IF req.uri.scheme = ""
    THEN Err([kind |-> "Builder", source |-> "RelativeUrlWithoutBase"])
    ELSE Ok([method |-> req.method,
             url |-> <<req.uri.scheme, req.uri.authority, req.uri.path>>,
             headers |-> req.headers,
             body |-> Some(req.body)])

\* --------------------------------------------------------------- responses
\* Native responses the inner executor's futures can complete with
\* (S::Response): an empty body and a multi-chunk JSON body.
NativeResponses ==
    { [status |-> 204, url |-> "http://mock/hello", headers |-> <<>>,
       stream |-> <<>>],
      [status |-> 200, url |-> "http://mock/hello",
       headers |-> << <<"content-type", "application/json">> >>,
       stream |-> <<"{student:Vasya Pupkin,", "answer:42}">>] }

\* Native errors the inner executor's futures can complete with (S::Error).
NativeErrors == { [kind |-> "Request", source |-> "connection refused"] }

\* http::Response<reqwest::Body>: From<S::Response>
ResponseFrom(res) ==
    [status |-> res.status, headers |-> res.headers,
     extensions |-> res.url, body |-> res.stream]

\* crate::Error: From<reqwest::Error>, used for the translation error
ErrorFromTranslation(e) == [variant |-> "Translation", source |-> e]

\* crate::Error: From<S::Error>, used for the inner future's failure
ErrorFromInner(e) == [variant |-> "Dispatch", source |-> e]

\* .map_ok with a conversion that keeps only the first chunk of the body.
MapOkFrom_first_chunk(p) ==
    IF p.kind = "Ready" /\ IsOk(p.val)
    THEN Ready(Ok([ResponseFrom(p.val.ok) EXCEPT
                      !.body = SubSeq(@, 1, IF Len(@) > 0 THEN 1 ELSE 0)]))
    ELSE p

\* .map_ok(From::from) and .map_err(crate::Error::from) on a Poll: only a
\* Ready(Ok) / Ready(Err) is changed; Pending, and a panic unwinding out of
\* the inner poll, pass through.
MapOkFrom(p) ==
    IF p.kind = "Ready" /\ IsOk(p.val)
    THEN Ready(Ok(ResponseFrom(p.val.ok)))
    ELSE p

MapErrFrom(p) ==
    IF p.kind = "Ready" /\ ~IsOk(p.val)
    THEN Ready(Err(ErrorFromInner(p.val.err)))
    ELSE p

\* ------------------------------------------------------------------- state
VARIABLES
    svc,     \* HttpClientService(S): the wrapped inner executor S, as a
             \* counting stub: its call count and its poll_ready count
    inner,   \* the futures S::call has returned, as the stub observes them
    futs,    \* the ExecuteRequestFuture values call has returned
    held,    \* the ExecuteRequestFutures their caller has not dropped
    hist,    \* per ExecuteRequestFuture, the polls made and their outcomes
    origin,  \* per ExecuteRequestFuture, how the call that made it went
    lastOp   \* the last operation performed and what it returned

vars == <<svc, inner, futs, held, hist, origin, lastOp>>

RECURSIVE SumLen(_)
SumLen(ss) == IF ss = <<>> THEN 0 ELSE Len(Head(ss)) + SumLen(Tail(ss))

\* ---------------------------------------------------------- inner executor
\* S::call(reqw): the stub counts the invocation.
InnerCall(s) == [s EXCEPT !.calls = @ + 1]

\* The state of a future freshly returned by S::call.
NewInnerFuture == [status |-> "pending", polls |-> 0, dropped |-> FALSE]

\* What polling an inner future can return.  Before completion: Pending or
\* its result.  Polling it again after completion is outside the Future
\* contract, so every outcome is possible, a panic of its own included.
InnerResults ==
    {Ready(Ok(r)) : r \in NativeResponses} \cup
    {Ready(Err(e)) : e \in NativeErrors}
InnerPollOutcomes(f) ==
    IF f.status = "pending"
    THEN {Pending} \cup InnerResults
    ELSE {Pending, Panic("inner future polled after completion")}
         \cup InnerResults

\* The inner future after a poll that returned o.
InnerPolled(f, o) ==
    [f EXCEPT !.polls = @ + 1,
              !.status = IF o.kind = "Pending" THEN @ ELSE "done"]

\* ------------------------------------------------------ HttpClientService
\* S::poll_ready: the stub counts the invocation.
InnerPollReady(s) == [s EXCEPT !.readyPolls = @ + 1]

\* Service::poll_ready forwarding the inner executor's readiness.
poll_ready_inner(self, innerReady) ==
    [self |-> InnerPollReady(self),
     ret |-> IF innerReady THEN Ready(Ok("unit")) ELSE Pending]

\* Service::poll_ready asking the inner executor but answering Ready.
poll_ready_asks(self, innerReady) ==
    [self |-> InnerPollReady(self), ret |-> Ready(Ok("unit"))]

\* Service::poll_ready.  innerReady is what self.0.poll_ready would report
\* at this moment, were it asked.  Yields the executor afterwards and the
\* value returned.
poll_ready(self, innerReady) == [self |-> self, ret |-> Ready(Ok("unit"))]

\* ExecuteRequestFuture::new storing no error for a failed translation.
ExecuteRequestFuture_new_drops_error(future) ==
    [inner |-> IF IsOk(future)
               THEN [tag |-> "Future", fut |-> future.ok]
               ELSE [tag |-> "Error", error |-> None]]

\* ExecuteRequestFuture::new
ExecuteRequestFuture_new(future) ==
    [inner |-> IF IsOk(future)
               THEN [tag |-> "Future", fut |-> future.ok]
               ELSE [tag |-> "Error",
                     error |-> Some(ErrorFromTranslation(future.err))]]

\* Service::call with the dispatch made before the translation is examined.
call_dispatch_first(self, req, fid) ==
    LET boxed == RequestMapBody(req)
        reqw == TryFromRequest(boxed)
        future == IF IsOk(reqw) THEN Ok(fid) ELSE reqw
    IN  [self |-> InnerCall(self),
         seen |-> IF IsOk(reqw) THEN Some(reqw.ok) ELSE None,
         ret |-> ExecuteRequestFuture_new(future)]

\* Service::call invoking the inner executor a second time.
call_twice(self, req, fid) ==
    LET boxed == RequestMapBody(req)
        reqw == TryFromRequest(boxed)
        future == IF IsOk(reqw) THEN Ok(fid) ELSE reqw
    IN  [self |-> IF IsOk(reqw) THEN InnerCall(InnerCall(self)) ELSE self,
         seen |-> IF IsOk(reqw) THEN Some(reqw.ok) ELSE None,
         ret |-> ExecuteRequestFuture_new(future)]

\* Service::call.  fid is the handle of the future S::call returns, if it
\* is invoked.  Yields the executor afterwards, the native request it saw
\* (if any) and the returned ExecuteRequestFuture.
call(self, req, fid) ==
    LET boxed == RequestMapBody(req)
        reqw == TryFromRequest(boxed)
        future == IF IsOk(reqw) THEN Ok(fid) ELSE reqw
    IN  [self |-> IF IsOk(reqw) THEN InnerCall(self) ELSE self,
         seen |-> IF IsOk(reqw) THEN Some(reqw.ok) ELSE None,
         ret |-> ExecuteRequestFuture_new(future)]

\* Future::poll staying Pending when the inner future fails.
poll_pending_on_error(this, o) ==
    IF this.inner.tag = "Future"
    THEN [this |-> this, polled |-> TRUE,
          out |-> IF o.kind = "Ready" /\ ~IsOk(o.val)
                  THEN Pending
                  ELSE MapOkFrom(o)]
    ELSE IF this.inner.error = None
         THEN [this |-> this, polled |-> FALSE,
               out |-> Panic("Polled after ready")]
         ELSE [this |-> [this EXCEPT !.inner.error = None], polled |-> FALSE,
               out |-> Ready(Err(this.inner.error.some))]

\* Future::poll turning a completed Future variant into an emptied Error
\* variant.
poll_fuses(this, o) ==
    IF this.inner.tag = "Future"
    THEN [this |-> IF o.kind = "Ready"
                   THEN [inner |-> [tag |-> "Error", error |-> None]]
                   ELSE this,
          polled |-> TRUE,
          out |-> MapErrFrom(MapOkFrom(o))]
    ELSE IF this.inner.error = None
         THEN [this |-> this, polled |-> FALSE,
               out |-> Panic("Polled after ready")]
         ELSE [this |-> [this EXCEPT !.inner.error = None], polled |-> FALSE,
               out |-> Ready(Err(this.inner.error.some))]

\* Future::poll returning Pending for the Future variant without polling
\* the inner future when the inner future would have returned Pending.
poll_skips_inner(this, o) ==
    IF this.inner.tag = "Future"
    THEN [this |-> this, polled |-> o.kind # "Pending",
          out |-> MapErrFrom(MapOkFrom(o))]
    ELSE IF this.inner.error = None
         THEN [this |-> this, polled |-> FALSE,
               out |-> Panic("Polled after ready")]
         ELSE [this |-> [this EXCEPT !.inner.error = None], polled |-> FALSE,
               out |-> Ready(Err(this.inner.error.some))]

\* Future::poll giving up on a Pending inner future: it returns Pending but
\* turns the future into an Error variant holding an error for next time.
poll_gives_up_on_pending(this, o) ==
    IF this.inner.tag = "Future"
    THEN [this |-> IF o.kind = "Pending"
                   THEN [inner |->
                            [tag |-> "Error",
                             error |-> Some(ErrorFromInner(
                                 [kind |-> "Request", source |-> "pending"]))]]
                   ELSE this,
          polled |-> TRUE,
          out |-> MapErrFrom(MapOkFrom(o))]
    ELSE IF this.inner.error = None
         THEN [this |-> this, polled |-> FALSE,
               out |-> Panic("Polled after ready")]
         ELSE [this |-> [this EXCEPT !.inner.error = None], polled |-> FALSE,
               out |-> Ready(Err(this.inner.error.some))]

\* Future::poll reading the stored error without taking it.
poll_without_take(this, o) ==
    IF this.inner.tag = "Future"
    THEN [this |-> this, polled |-> TRUE,
          out |-> MapErrFrom(MapOkFrom(o))]
    ELSE IF this.inner.error = None
         THEN [this |-> this, polled |-> FALSE,
               out |-> Panic("Polled after ready")]
         ELSE [this |-> this, polled |-> FALSE,
               out |-> Ready(Err(this.inner.error.some))]

\* Future::poll for ExecuteRequestFuture.  o is what the inner future
\* returns if it is polled.  Yields the future afterwards, whether the
\* inner future was polled, and the value returned (or the panic).
poll(this, o) ==
    IF this.inner.tag = "Future"
    THEN [this |-> this, polled |-> TRUE,
          out |-> MapErrFrom(MapOkFrom(o))]
    ELSE IF this.inner.error = None
         THEN [this |-> this, polled |-> FALSE,
               out |-> Panic("Polled after ready")]
         ELSE [this |-> [this EXCEPT !.inner.error = None], polled |-> FALSE,
               out |-> Ready(Err(this.inner.error.some))]

\* Drop glue that leaves the inner future alive.
DropGlue_leak(this) == {}

\* Drop glue of ExecuteRequestFuture: the fields it owns are dropped with
\* it, so the inner future of the Future variant is dropped.
DropGlue(this) ==
    IF this.inner.tag = "Future" THEN {this.inner.fut} ELSE {}

\* ----------------------------------------------------------------- actions
Init ==
    /\ svc = [calls |-> 0, readyPolls |-> 0]
    /\ inner = <<>>
    /\ futs = <<>>
    /\ held = {}
    /\ hist = <<>>
    /\ origin = <<>>
    /\ lastOp = [op |-> "init"]

\* The caller checks the adapter's readiness, while the inner executor is
\* or is not ready itself (its backpressure).
PollReady ==
    /\ \E innerReady \in BOOLEAN :
          LET r == poll_ready(svc, innerReady)
          IN  /\ svc' = r.self
              /\ lastOp' = [op |-> "poll_ready", ret |-> r.ret,
                            innerReady |-> innerReady]
    /\ UNCHANGED <<inner, futs, held, hist, origin>>

\* The adapter is handed req and returns an ExecuteRequestFuture.
CallWith(req, layered) ==
    /\ Len(futs) < MaxCalls
    /\ LET fid == Len(inner) + 1
           r == call(svc, req, fid)
           id == Len(futs) + 1
       IN  /\ svc' = r.self
           /\ inner' = IF r.ret.inner.tag = "Future"
                       THEN Append(inner, NewInnerFuture)
                       ELSE inner
           /\ futs' = Append(futs, r.ret)
           /\ held' = held \cup {id}
           /\ hist' = Append(hist, <<>>)
           /\ origin' = Append(origin,
                    [translated |-> IsOk(TryFromRequest(RequestMapBody(req))),
                     dispatched |-> r.self.calls - svc.calls,
                     created |-> r.ret])
           /\ lastOp' = [op |-> "call", id |-> id, req |-> req,
                         layered |-> layered, seen |-> r.seen,
                         ret |-> r.ret, callsBefore |-> svc.calls]

\* A call made directly on the adapter.
Call == \E req \in GenericRequests : CallWith(req, FALSE)

\* A call made through the stack with the request-id layer above the adapter.
CallLayered == \E req \in GenericRequests : CallWith(SetRequestId(req), TRUE)

\* A poll that works on one slot shared by all calls (the first future's).
Poll_shared(i) ==
    /\ i \in held
    /\ SumLen(hist) < MaxPolls
    /\ \E o \in IF futs[1].inner.tag = "Future"
                THEN InnerPollOutcomes(inner[futs[1].inner.fut])
                ELSE {[kind |-> "Absent"]} :
         LET r == poll(futs[1], o)
         IN  /\ futs' = [futs EXCEPT ![1] = r.this]
             /\ inner' = IF r.polled
                         THEN [inner EXCEPT ![futs[1].inner.fut] =
                                                InnerPolled(@, o)]
                         ELSE inner
             /\ hist' = [hist EXCEPT ![i] =
                            Append(@, [polled |-> r.polled, inner |-> o,
                                       out |-> r.out])]
             /\ lastOp' = [op |-> "poll", id |-> i, polled |-> r.polled,
                           inner |-> o, out |-> r.out]
    /\ UNCHANGED <<svc, held, origin>>

\* The caller polls an ExecuteRequestFuture it holds.
Poll(i) ==
    /\ i \in held
    /\ SumLen(hist) < MaxPolls
    /\ \E o \in IF futs[i].inner.tag = "Future"
                THEN InnerPollOutcomes(inner[futs[i].inner.fut])
                ELSE {[kind |-> "Absent"]} :
         LET r == poll(futs[i], o)
         IN  /\ futs' = [futs EXCEPT ![i] = r.this]
             /\ inner' = IF r.polled
                         THEN [inner EXCEPT ![futs[i].inner.fut] =
                                                InnerPolled(@, o)]
                         ELSE inner
             /\ hist' = [hist EXCEPT ![i] =
                            Append(@, [polled |-> r.polled, inner |-> o,
                                       out |-> r.out])]
             /\ lastOp' = [op |-> "poll", id |-> i, polled |-> r.polled,
                           inner |-> o, out |-> r.out]
    /\ UNCHANGED <<svc, held, origin>>

\* The caller drops an ExecuteRequestFuture it holds.
Drop(i) ==
    /\ i \in held
    /\ held' = held \ {i}
    /\ inner' = [k \in DOMAIN inner |->
                    IF k \in DropGlue(futs[i])
                    THEN [inner[k] EXCEPT !.dropped = TRUE]
                    ELSE inner[k]]
    /\ lastOp' = [op |-> "drop", id |-> i]
    /\ UNCHANGED <<svc, futs, hist, origin>>

Next ==
    \/ PollReady
    \/ Call
    \/ CallLayered
    \/ \E i \in 1..MaxCalls : Poll(i)
    \/ \E i \in 1..MaxCalls : Drop(i)

Spec == Init /\ [][Next]_vars

TypeOK ==
    /\ svc.calls \in 0..MaxCalls
    /\ Len(futs) <= MaxCalls
    /\ Len(hist) = Len(futs)
    /\ Len(origin) = Len(futs)
    /\ held \subseteq 1..Len(futs)

\* ------------------------------------------------------------------ claims
Ids == 1..Len(futs)
InFlight(i) == futs[i].inner.tag = "Future"
FailedBeforeDispatch(i) == futs[i].inner.tag = "Error"
\* The error try_from gives for a request it rejects.
TranslationError(req) == TryFromRequest(RequestMapBody(req)).err

\* C1: a call whose translation fails does not invoke the inner executor;
\* the future it returns holds no inner future, its first poll yields the
\* translation error without polling anything, no poll of it returns
\* Pending, and the inner executor's invocation count never counts it.
C1_FailedTranslationNeverDispatches ==
    /\ \A i \in Ids : ~origin[i].translated =>
          /\ origin[i].dispatched = 0
          /\ FailedBeforeDispatch(i)
          /\ hist[i] # <<>> =>
                /\ hist[i][1].out.kind = "Ready"
                /\ ~IsOk(hist[i][1].out.val)
                /\ hist[i][1].out.val.err.variant = "Translation"
          /\ \A k \in 1..Len(hist[i]) :
                hist[i][k].out.kind # "Pending" /\ ~hist[i][k].polled
    /\ lastOp.op = "call" /\ ~origin[lastOp.id].translated =>
          svc.calls = lastOp.callsBefore /\ lastOp.seen = None
    /\ svc.calls = Cardinality({i \in Ids : origin[i].translated})

\* C1 witness: a future from a failed translation has been polled.
C1_Witness ==
    \E i \in Ids : ~origin[i].translated /\ Len(hist[i]) >= 1 /\ svc.calls = 0

\* C2: every call invokes the inner executor once if its translation
\* succeeds and not at all otherwise; the invocation is made by the call
\* itself, so it is counted when call returns, before any poll; and no
\* poll, drop or readiness check changes the invocation count.
C2_DispatchedOncePerCall ==
    /\ [](/\ \A i \in Ids :
                origin[i].dispatched = IF origin[i].translated THEN 1 ELSE 0
          /\ lastOp.op = "call" =>
                /\ svc.calls = lastOp.callsBefore + origin[lastOp.id].dispatched
                /\ hist[lastOp.id] = <<>>
                /\ origin[lastOp.id].translated => lastOp.seen # None)
    /\ [][lastOp'.op \in {"poll", "drop", "poll_ready"} =>
            svc'.calls = svc.calls]_vars

\* C2 witness: a dispatched future was polled and another dropped, one
\* invocation each.
C2_Witness ==
    /\ svc.calls = 2
    /\ \E i \in Ids : origin[i].translated /\ Len(hist[i]) >= 2
    /\ \E i \in Ids : origin[i].translated /\ i \notin held

\* C3: call returns an ExecuteRequestFuture for every request.  When the
\* translation fails the returned future is the Error variant with the
\* translation error stored and not yet delivered; when it succeeds it is
\* the Future variant holding the fresh inner future.  Errors appear only
\* in values returned by poll.
C3_CallAlwaysReturnsFuture ==
    lastOp.op = "call" =>
        /\ lastOp.ret = futs[lastOp.id]
        /\ lastOp.id \in held
        /\ hist[lastOp.id] = <<>>
        /\ IF IsOk(TryFromRequest(RequestMapBody(lastOp.req)))
           THEN /\ lastOp.ret.inner.tag = "Future"
                /\ inner[lastOp.ret.inner.fut] = NewInnerFuture
           ELSE lastOp.ret.inner =
                    [tag |-> "Error",
                     error |-> Some(ErrorFromTranslation(
                                        TranslationError(lastOp.req)))]

\* C3 witness: a call whose translation failed has just returned.
C3_Witness ==
    /\ lastOp.op = "call"
    /\ ~IsOk(TryFromRequest(RequestMapBody(lastOp.req)))
    /\ lastOp.ret.inner.tag = "Error"

\* C4 as stated: any poll that follows a poll which returned Ready panics
\* with "Polled after ready", for both variants.
C4_AnyPollAfterReadyPanics ==
    \A i \in Ids : \A k \in 2..Len(hist[i]) :
        hist[i][k - 1].out.kind = "Ready" =>
            hist[i][k].out = Panic("Polled after ready")

\* C4 amended: a poll of the Error variant after the poll that yielded the
\* stored error panics with "Polled after ready" and polls nothing; a poll
\* of the Future variant after its inner future completed polls the inner
\* future again and returns what that poll gives, converted as usual.
C4_ErrorVariantPanicsFutureVariantRepolls ==
    \A i \in Ids : \A k \in 2..Len(hist[i]) :
        IF origin[i].created.inner.tag = "Error"
        THEN hist[i][k].out = Panic("Polled after ready")
             /\ ~hist[i][k].polled
        ELSE hist[i][k].polled
             /\ hist[i][k].out = MapErrFrom(MapOkFrom(hist[i][k].inner))

\* C4 witness: an Error-variant future was polled again after it resolved.
C4_Witness ==
    \E i \in Ids :
        /\ origin[i].created.inner.tag = "Error"
        /\ Len(hist[i]) >= 2
        /\ hist[i][1].out.kind = "Ready"
        /\ hist[i][2].out.kind = "Panic"

\* C5: poll_ready returns Ready(Ok(())) whenever it is invoked.
C5_AlwaysReady ==
    lastOp.op = "poll_ready" => lastOp.ret = Ready(Ok("unit"))

\* C5 witness: poll_ready was invoked while the inner executor was not
\* ready, with one future in flight and one dropped.
C5_Witness ==
    /\ lastOp.op = "poll_ready"
    /\ ~lastOp.innerReady
    /\ \E i \in held : InFlight(i) /\ inner[futs[i].inner.fut].status = "pending"
    /\ \E i \in Ids : i \notin held

\* C6: every poll of a Future-variant future polls its inner future, and
\* returns Pending exactly when that poll returned Pending; when the inner
\* poll returns Ready(Ok) the same poll returns Ready(Ok) of a response,
\* when it returns Ready(Err) the same poll returns Ready(Err) of the
\* dispatch error built from it; the variant stays Future.
C6_InFlightFollowsInnerFuture ==
    \A i \in Ids : origin[i].created.inner.tag = "Future" =>
        /\ futs[i] = origin[i].created
        /\ \A k \in 1..Len(hist[i]) :
             LET h == hist[i][k] IN
             /\ h.polled
             /\ (h.out.kind = "Pending") <=> (h.inner.kind = "Pending")
             /\ h.inner.kind = "Ready" =>
                   /\ h.out.kind = "Ready"
                   /\ IsOk(h.out.val) <=> IsOk(h.inner.val)
                   /\ ~IsOk(h.inner.val) =>
                         h.out.val.err =
                             [variant |-> "Dispatch", source |-> h.inner.val.err]

\* C6 witness: an in-flight future returned Pending and then resolved to
\* the dispatch error in the poll in which its inner future failed.
C6_Witness ==
    \E i \in Ids :
        /\ origin[i].created.inner.tag = "Future"
        /\ Len(hist[i]) = 2
        /\ hist[i][1].out.kind = "Pending"
        /\ hist[i][2].inner.kind = "Ready"
        /\ ~IsOk(hist[i][2].inner.val)

\* C7: an inner future is dropped exactly when the ExecuteRequestFuture
\* that holds it has been dropped; a dropped inner future is never polled
\* or changed again; the adapter holds the inner executor and nothing
\* else; dropping changes nothing else: not the executor, not the other
\* futures, not the other inner futures.
C7_DropReleasesInnerFuture ==
    /\ [](/\ \A i \in Ids : InFlight(i) =>
                (inner[futs[i].inner.fut].dropped <=> i \notin held)
          /\ DOMAIN svc = {"calls", "readyPolls"})
    /\ [][/\ \A k \in 1..Len(inner) :
                inner[k].dropped => inner'[k] = inner[k]
          /\ lastOp'.op = "drop" =>
                /\ svc' = svc /\ futs' = futs /\ hist' = hist
                /\ \A k \in 1..Len(inner) :
                      inner'[k] # inner[k] =>
                          /\ InFlight(lastOp'.id)
                          /\ k = futs[lastOp'.id].inner.fut]_vars

\* C7 witness: a future still pending after a poll was dropped, and its
\* inner future with it.
C7_Witness ==
    \E i \in Ids :
        /\ i \notin held
        /\ InFlight(i)
        /\ Len(hist[i]) >= 1
        /\ inner[futs[i].inner.fut].status = "pending"
        /\ inner[futs[i].inner.fut].dropped
        /\ inner[futs[i].inner.fut].polls = Len(hist[i])

\* The values a future returns when it is polled alone, from the state it
\* was created in, with its inner future returning os.
RECURSIVE SoloRun(_, _)
SoloRun(this, os) ==
    IF os = <<>>
    THEN <<>>
    ELSE LET r == poll(this, Head(os))
         IN  <<r.out>> \o SoloRun(r.this, Tail(os))

\* C8: whatever the interleaving, the values each future has returned are
\* those it returns when polled alone with the same inner outcomes; and a
\* step on one future, a call or a readiness check leaves every other
\* future and its history unchanged.
C8_CallsAreIndependent ==
    /\ [](\A i \in Ids :
             [k \in 1..Len(hist[i]) |-> hist[i][k].out] =
                 SoloRun(origin[i].created,
                         [k \in 1..Len(hist[i]) |-> hist[i][k].inner]))
    /\ [][\A j \in Ids :
             (lastOp'.op \in {"poll", "drop"} /\ lastOp'.id = j)
             \/ (futs'[j] = futs[j] /\ hist'[j] = hist[j]
                 /\ (InFlight(j) =>
                        inner'[futs[j].inner.fut] = inner[futs[j].inner.fut]))]_vars

\* C8 witness: two futures from the same adapter, one of each variant,
\* both polled, the in-flight one still pending when the other resolved.
C8_Witness ==
    \E i, j \in held :
        /\ InFlight(i) /\ Len(hist[i]) >= 1
        /\ hist[i][1].out.kind = "Pending"
        /\ origin[j].created.inner.tag = "Error" /\ Len(hist[j]) >= 1
        /\ i < j
        /\ lastOp.op = "poll" /\ lastOp.id = j

C10_HeaderPassThrough ==
    lastOp.op = "call" /\ lastOp.seen # None =>
        /\ lastOp.seen.some.headers = lastOp.req.headers
        /\ lastOp.layered =>
              HasHeader(lastOp.seen.some.headers, RequestIdHeader)
        /\ HasHeader(lastOp.seen.some.headers, RequestIdHeader) =>
              HasHeader(lastOp.req.headers, RequestIdHeader)

\* C10 witness: a layered call dispatched a request that carries the
\* injected x-request-id next to the caller's own header.
C10_Witness ==
    /\ lastOp.op = "call"
    /\ lastOp.layered
    /\ lastOp.seen # None
    /\ lastOp.seen.some.headers =
           << <<"accept", "json">>, <<RequestIdHeader, "uuid">> >>

\* ------------------------------------------------- eventual resolution
\* An ExecuteRequestFuture has returned Ready from some poll.
Resolved(i) ==
    i \in Ids /\ \E k \in 1..Len(hist[i]) : hist[i][k].out.kind = "Ready"

\* What an inner future that does complete returns when it is polled: it
\* may return Pending MaxPending times, then it returns its result.
CompletingPollOutcomes(f) ==
    IF f.polls < MaxPending THEN {Pending} \cup InnerResults ELSE InnerResults

\* The caller polls a future it holds that has not resolved yet (it keeps
\* to the rule of not polling after completion).
PollUntilReady(i) ==
    /\ i \in held
    /\ ~Resolved(i)
    /\ Len(hist[i]) <= MaxPending
    /\ \E o \in IF futs[i].inner.tag = "Future"
                THEN CompletingPollOutcomes(inner[futs[i].inner.fut])
                ELSE {[kind |-> "Absent"]} :
         LET r == poll(futs[i], o)
         IN  /\ futs' = [futs EXCEPT ![i] = r.this]
             /\ inner' = IF r.polled
                         THEN [inner EXCEPT ![futs[i].inner.fut] =
                                                InnerPolled(@, o)]
                         ELSE inner
             /\ hist' = [hist EXCEPT ![i] =
                            Append(@, [polled |-> r.polled, inner |-> o,
                                       out |-> r.out])]
             /\ lastOp' = [op |-> "poll", id |-> i, polled |-> r.polled,
                           inner |-> o, out |-> r.out]
    /\ UNCHANGED <<svc, held, origin>>

\* Callers that keep every future and poll it until it resolves.
LiveNext ==
    \/ Call
    \/ CallLayered
    \/ \E i \in 1..MaxCalls : PollUntilReady(i)

\* The executor driving the futures polls every unresolved future again.
LiveSpec ==
    /\ Init
    /\ [][LiveNext]_vars
    /\ \A i \in 1..MaxCalls : WF_vars(PollUntilReady(i))

\* C11: when inner futures complete and the caller keeps polling, every
\* future call has returned resolves; one made from a failed translation
\* resolves on its first poll.
C11_EventuallyResolves ==
    /\ \A i \in 1..MaxCalls : (i \in held) ~> Resolved(i)
    /\ [](\A i \in Ids : origin[i].created.inner.tag = "Error" =>
             \A k \in 1..Len(hist[i]) : k = 1 /\ hist[i][k].out.kind = "Ready")

\* C11 witness: a dispatched future returned Pending and resolved on the
\* next poll, and a future from a failed translation resolved on its first.
C11_Witness ==
    /\ \E i \in Ids :
          /\ origin[i].translated
          /\ Len(hist[i]) = 2
          /\ hist[i][1].out.kind = "Pending"
          /\ hist[i][2].out.kind = "Ready"
    /\ \E i \in Ids : ~origin[i].translated /\ Resolved(i)

\* C12 as stated: the variant of a future never changes, and after a poll
\* of it has returned Ready no later poll of it returns Pending or Ready.
C12_NeverUnresolvedAgain ==
    \A i \in Ids :
        /\ futs[i].inner.tag = origin[i].created.inner.tag
        /\ \A k \in 1..Len(hist[i]) : \A m \in (k + 1)..Len(hist[i]) :
              hist[i][k].out.kind = "Ready" =>
                  hist[i][m].out.kind \notin {"Pending", "Ready"}

\* C12 amended: every future is the Future or the Error variant, the one
\* it was created as, and no step changes it; an Error variant whose slot
\* has been emptied stays emptied, and after the poll that yielded its
\* error no later poll of it returns Pending or Ready.  (A Future variant
\* keeps no resolved state: polls after completion go to the inner future.)
C12_VariantFixedErrorStaysTaken ==
    /\ [](\A i \in Ids :
             /\ futs[i].inner.tag \in {"Future", "Error"}
             /\ futs[i].inner.tag = origin[i].created.inner.tag
             /\ FailedBeforeDispatch(i) =>
                   \A k \in 2..Len(hist[i]) :
                       hist[i][k].out.kind \notin {"Pending", "Ready"})
    /\ [][\A i \in Ids :
             /\ futs'[i].inner.tag = futs[i].inner.tag
             /\ (FailedBeforeDispatch(i) /\ futs[i].inner.error = None) =>
                   futs'[i].inner.error = None]_vars

\* C12 witness: an in-flight future has resolved and is still the Future
\* variant, and an Error variant has yielded its error.
C12_Witness ==
    /\ \E i \in Ids :
          /\ InFlight(i)
          /\ origin[i].created.inner.tag = "Future"
          /\ Resolved(i)
    /\ \E i \in Ids :
          /\ FailedBeforeDispatch(i)
          /\ futs[i].inner.error = None
          /\ Resolved(i)

\* C13: the error slot of a future created as the Error variant holds the
\* error it was created with until the first poll; the first poll yields
\* exactly that error; the slot is empty ever after; so the error is
\* yielded by at most one poll and the slot never holds any other value.
C13_StoredErrorTakenOnce ==
    \A i \in Ids : origin[i].created.inner.tag = "Error" =>
        /\ futs[i].inner.error \in {None, origin[i].created.inner.error}
        /\ origin[i].created.inner.error # None
        /\ (hist[i] = <<>>) <=> (futs[i].inner.error # None)
        /\ hist[i] # <<>> =>
              hist[i][1].out =
                  Ready(Err(origin[i].created.inner.error.some))
        /\ Cardinality({k \in 1..Len(hist[i]) :
                           hist[i][k].out.kind = "Ready"}) <= 1

\* C13 witness: an Error variant was polled twice: its error was yielded
\* by the first poll only and its slot is empty.
C13_Witness ==
    \E i \in Ids :
        /\ origin[i].created.inner.tag = "Error"
        /\ Len(hist[i]) = 2
        /\ futs[i].inner.error = None
        /\ hist[i][1].out.kind = "Ready"
        /\ hist[i][2].out.kind # "Ready"

\* C14: call pulls no frame from the request body, and the body does not
\* decide the translation: a request with a valid URI whose body fails
\* mid-stream is dispatched once and its future is the Future variant; the
\* inner executor receives the body unread, and consuming it there gives
\* the same chunks followed by the stream error, boxed.
C14_BodyLazyNeverFailsTranslation ==
    lastOp.op = "call" =>
        /\ origin[lastOp.id].translated <=> lastOp.req.uri.scheme # ""
        /\ lastOp.req.uri.scheme # "" =>
              /\ lastOp.ret.inner.tag = "Future"
              /\ svc.calls = lastOp.callsBefore + 1
              /\ lastOp.seen # None
              /\ lastOp.seen.some.body.some.read = 0
              /\ lastOp.seen.some.body.some.chunks = lastOp.req.body.chunks
              /\ \A k \in 1..Len(BodyFrames(lastOp.seen.some.body.some)) :
                    LET f == BodyFrames(lastOp.seen.some.body.some)[k] IN
                    IF k <= Len(lastOp.req.body.chunks)
                    THEN f = Ok(lastOp.req.body.chunks[k])
                    ELSE ~IsOk(f) /\ f.err.boxed
              /\ Len(BodyFrames(lastOp.seen.some.body.some)) =
                    Len(BodyFrames(lastOp.req.body))

\* C14 witness: a request whose body fails mid-stream was dispatched.
C14_Witness ==
    /\ lastOp.op = "call"
    /\ lastOp.req.body.fails
    /\ Len(lastOp.req.body.chunks) = 2
    /\ lastOp.ret.inner.tag = "Future"
    /\ lastOp.seen # None

\* C15: call returns without polling the inner future it obtained; a poll
\* of a future returns Pending only if that poll polled the inner future
\* and the inner future returned Pending; a future created as the Error
\* variant never returns Pending.
C15_OnlyInnerFutureSuspends ==
    /\ lastOp.op = "call" /\ lastOp.ret.inner.tag = "Future" =>
          inner[lastOp.ret.inner.fut].polls = 0
    /\ \A i \in Ids : \A k \in 1..Len(hist[i]) :
          hist[i][k].out.kind = "Pending" =>
              /\ hist[i][k].polled
              /\ hist[i][k].inner.kind = "Pending"
              /\ origin[i].created.inner.tag = "Future"
    /\ lastOp.op = "poll" /\ lastOp.out.kind = "Pending" =>
          /\ InFlight(lastOp.id)
          /\ inner[futs[lastOp.id].inner.fut].polls >= 1

\* C15 witness: a poll returned Pending because the inner future did, and
\* an Error variant was polled without suspending.
C15_Witness ==
    /\ \E i \in Ids :
          /\ Len(hist[i]) >= 1
          /\ hist[i][1].out.kind = "Pending"
          /\ hist[i][1].inner.kind = "Pending"
    /\ \E i \in Ids :
          /\ origin[i].created.inner.tag = "Error"
          /\ Len(hist[i]) >= 1

\* C16: the adapter never invokes the inner executor's poll_ready: its
\* invocation count is 0 in every state, no readiness check of the adapter
\* changes the executor, and a call whose translation succeeds invokes the
\* inner executor's call all the same.
C16_InnerReadinessNeverConsulted ==
    /\ [](/\ svc.readyPolls = 0
          /\ lastOp.op = "call" /\ origin[lastOp.id].translated =>
                svc.calls = lastOp.callsBefore + 1)
    /\ [][lastOp'.op = "poll_ready" => svc' = svc]_vars

\* C16 witness: the adapter reported ready while the inner executor was
\* not, it had dispatched a call before, and the inner executor was never
\* asked.
C16_Witness ==
    /\ lastOp.op = "poll_ready"
    /\ ~lastOp.innerReady
    /\ lastOp.ret = Ready(Ok("unit"))
    /\ svc.calls >= 1
    /\ svc.readyPolls = 0

\* C17: every poll of a Future variant polls its inner future once, so the
\* inner future has been polled as often as the future itself; no poll of
\* an Error variant polls anything, and there are no inner futures but
\* those of the Future variants; an inner future is polled after it
\* returned Ready only by a poll of a future that had already completed.
C17_InnerPollsMatchOuterPolls ==
    /\ Len(inner) = Cardinality({i \in Ids : InFlight(i)})
    /\ \A i \in Ids :
          IF origin[i].created.inner.tag = "Future"
          THEN /\ inner[futs[i].inner.fut].polls = Len(hist[i])
               /\ \A k \in 1..Len(hist[i]) : hist[i][k].polled
               /\ \A k \in 1..Len(hist[i]) : \A m \in (k + 1)..Len(hist[i]) :
                     hist[i][k].inner.kind # "Pending" =>
                         hist[i][k].out.kind # "Pending"
          ELSE \A k \in 1..Len(hist[i]) : ~hist[i][k].polled

\* C17 witness: a Future variant was polled twice, Pending then Ready, and
\* its inner future was polled twice.
C17_Witness ==
    \E i \in Ids :
        /\ InFlight(i)
        /\ Len(hist[i]) = 2
        /\ hist[i][1].out.kind = "Pending"
        /\ hist[i][2].out.kind = "Ready"
        /\ inner[futs[i].inner.fut].polls = 2

\* C18: a readiness check changes nothing: not the executor and its
\* invocation counts, not any future, inner future or history.  A poll
\* that returns Pending changes no future (the polled one keeps its
\* variant and gains no error), not the executor, and no inner future but
\* the polled future's own.
C18_ReadyCheckAndPendingPollArePure ==
    [][/\ lastOp'.op = "poll_ready" =>
             /\ svc' = svc /\ futs' = futs /\ inner' = inner
             /\ held' = held /\ hist' = hist /\ origin' = origin
       /\ (lastOp'.op = "poll" /\ lastOp'.out.kind = "Pending") =>
             /\ svc' = svc /\ futs' = futs /\ held' = held
             /\ InFlight(lastOp'.id)
             /\ \A j \in Ids : j # lastOp'.id => hist'[j] = hist[j]
             /\ \A k \in 1..Len(inner) :
                   k # futs[lastOp'.id].inner.fut => inner'[k] = inner[k]]_vars

\* C18 witness: a poll of an in-flight future has just returned Pending
\* while another future of the same adapter had already been polled.
C18_Witness ==
    /\ lastOp.op = "poll"
    /\ lastOp.out.kind = "Pending"
    /\ InFlight(lastOp.id)
    /\ \E j \in Ids : j # lastOp.id /\ Len(hist[j]) >= 1

\* C19: a poll yields the error of a rejected translation exactly for the
\* futures whose call did not invoke the inner executor; it yields an
\* error built from an inner failure only for a future whose call invoked
\* the inner executor, in a poll in which its inner future returned that
\* failure; and it yields a response only for a future whose call invoked
\* the inner executor.
C19_ErrorKindFollowsStage ==
    \A i \in Ids : \A k \in 1..Len(hist[i]) :
        LET h == hist[i][k] IN
        h.out.kind = "Ready" =>
            /\ (~IsOk(h.out.val) /\ h.out.val.err.variant = "Translation")
                  <=> origin[i].dispatched = 0
            /\ origin[i].dispatched = 0 =>
                  /\ ~IsOk(h.out.val)
                  /\ h.out.val.err.source.kind = "Builder"
                  /\ ~h.polled
            /\ (~IsOk(h.out.val) /\ h.out.val.err.variant = "Dispatch") =>
                  /\ origin[i].dispatched = 1
                  /\ h.polled
                  /\ h.inner = Ready(Err(h.out.val.err.source))
                  /\ h.out.val.err.source \in NativeErrors
            /\ IsOk(h.out.val) => origin[i].dispatched = 1 /\ h.polled

\* C19 witness: one future resolved to the translation error with the
\* inner executor not invoked for it, another to a dispatch error after
\* its inner future failed.
C19_Witness ==
    /\ \E i \in Ids :
          /\ origin[i].dispatched = 0
          /\ Len(hist[i]) >= 1
          /\ hist[i][1].out.val.err.variant = "Translation"
    /\ \E i \in Ids :
          /\ origin[i].dispatched = 1
          /\ Len(hist[i]) >= 1
          /\ hist[i][1].out.kind = "Ready"
          /\ ~IsOk(hist[i][1].out.val)
          /\ hist[i][1].out.val.err.variant = "Dispatch"
    /\ svc.calls = 1

====
